---- MODULE Spec2Model ----
(***************************************************************************)
(* A model of the moving-average bounce analyzer (src/src/analyzer.py).    *)
(*                                                                         *)
(* Numbers.  Prices are integers.  A moving-average value and every        *)
(* configured fraction (alpha_wick, target_pct) is an exact rational       *)
(* [n, d] with d >= 1; NaN is the record with nan = TRUE.  Comparisons     *)
(* are cross-multiplied, so they are the comparisons of the real numbers.  *)
(* The rounding of binary floating point is modelled for is_wick_touch in  *)
(* SpecScale alone; every other specification computes exactly.            *)
(***************************************************************************)
EXTENDS Integers, Sequences, FiniteSets

VARIABLES
    config,        \* self.config: the AnalysisConfig of the Analyzer
    pc,            \* the position of the call under analysis
    row,           \* is_wick_touch: the df_row argument
    ma_value,      \* is_wick_touch: the ma_value argument
    factor,        \* the constant a second call's arguments are multiplied by
    df,            \* analyze_events / analyze_file: the DataFrame (a sequence of rows)
    events_df,     \* calculate_metrics: the events argument
    period,        \* analyze_file: the loop variable of line 251
    ti,            \* analyze_file: the position in config.ma_types (line 253)
    results,       \* analyze_file: the results list
    csv_files,     \* analyze_all_data: the sorted list of files of DATA_DIR
    fidx,          \* analyze_all_data: the position of the loop of line 306
    all_results,   \* analyze_all_data: the all_results list
    summary_file,  \* the content of RESULTS_DIR/analysis_results.csv
    analyzed,      \* analyze_all_data: the positions of the files passed to analyze_file
    ret,           \* the value the call returned
    csv,           \* _fetch_ohlcv_stream: the lines of the file at filepath
    since,         \* _fetch_ohlcv_stream: the since argument
    now,           \* _fetch_ohlcv_stream: self.exchange.milliseconds() at entry
    fetch_since,   \* _fetch_ohlcv_stream: the cursor of the next request
    first_write,   \* _fetch_ohlcv_stream: whether the header is still to write
    bars,          \* _fetch_ohlcv_stream: the batch of the last request
    total_written, \* _fetch_ohlcv_stream: the rows written by this invocation
    runs           \* the number of invocations of _fetch_ohlcv_stream so far

touchVars == <<row, ma_value, factor>>

fileVars == <<period, ti, results>>

sweepVars == <<csv_files, fidx, all_results, summary_file, analyzed>>

fetchVars ==
    <<csv, since, now, fetch_since, first_write, bars, total_written, runs>>

vars ==
    <<config, pc, df, events_df, ret, touchVars, fileVars, sweepVars, fetchVars>>

-----------------------------------------------------------------------------
(* Bounds of the model *)

MaxPrice == 3
MaxLen == 3
MaxWin == 1
MaxLook == 2
MaxPeriod == 2
MaxMinEvents == 2
MaxEvents == 3
MaxFiles == 2

-----------------------------------------------------------------------------
(* Rationals and NaN *)

NaN == [nan |-> TRUE, n |-> 0, d |-> 1]

Rat(a, b) == [nan |-> FALSE, n |-> a, d |-> b]

\* Optional values: None is the empty sequence, a value x is <<x>>
None == <<>>

Some(x) == <<x>>

Min(a, b) == IF a <= b THEN a ELSE b

Max(a, b) == IF a >= b THEN a ELSE b

-----------------------------------------------------------------------------
(* AnalysisConfig.  alpha_wick and target_pct have the defaults of          *)
(* src/src/config.py; every specification sets the fields its call reads.  *)

DefaultAlphaWick == Rat(3, 10)

BaseConfig ==
    [ma_period_min |-> 1, ma_period_max |-> 1, ma_types |-> <<"SMA", "EMA">>,
     alpha_wick |-> DefaultAlphaWick, n_pre |-> 0, n_post |-> 0,
     target_pct |-> Rat(3, 100), max_lookahead |-> None,
     min_events_for_significance |-> 0]

-----------------------------------------------------------------------------
(* Analyzer.is_wick_touch *)

body_low(r) == Min(r.open, r.close)

body_high(r) == Max(r.open, r.close)

candle_size(r) == r.high - r.low

lower_wick(r) == body_low(r) - r.low

upper_wick(r) == r.high - body_high(r)

\* lower_wick >= alpha_wick * candle_size
cond_lower_wick(r) ==
    lower_wick(r) * config.alpha_wick.d >= config.alpha_wick.n * candle_size(r)

cond_upper_wick(r) ==
    upper_wick(r) * config.alpha_wick.d >= config.alpha_wick.n * candle_size(r)

\* mutant: the body may rest on the average (>= for >)
touch_from_below_nonstrict(r, ma) ==
    /\ body_low(r) * ma.d >= ma.n
    /\ r.low * ma.d <= ma.n

\* (body_low > ma_value) and (low <= ma_value)
touch_from_below(r, ma) ==
    /\ body_low(r) * ma.d > ma.n
    /\ r.low * ma.d <= ma.n

\* mutant: the average may lie above the candle
touch_from_above_unbounded(r, ma) == body_high(r) * ma.d < ma.n

\* (body_high < ma_value) and (high >= ma_value)
touch_from_above(r, ma) ==
    /\ body_high(r) * ma.d < ma.n
    /\ r.high * ma.d >= ma.n

\* mutant: the guards of lines 63-70 are gone
is_wick_touch_unguarded(r, ma) ==
    IF touch_from_below(r, ma) /\ cond_lower_wick(r) THEN 1
    ELSE IF touch_from_above(r, ma) /\ cond_upper_wick(r) THEN -1
    ELSE 0

is_wick_touch(r, ma) ==
    IF ma.nan THEN 0
    ELSE IF candle_size(r) <= 0 THEN 0
    ELSE IF touch_from_below(r, ma) /\ cond_lower_wick(r) THEN 1
    ELSE IF touch_from_above(r, ma) /\ cond_upper_wick(r) THEN -1
    ELSE 0

\* Python objects: an int and a bool are objects of different types
PyInt(v) == [type |-> "int", value |-> v]

PyBool(b) == [type |-> "bool", value |-> b]

\* a is b, for small ints and bools
py_is(a, b) == a.type = b.type /\ a.value = b.value

\* the object is_wick_touch returns: the int literals 0, 1 and -1 of the
\* return statements
is_wick_touch_object(r, ma) == PyInt(is_wick_touch(r, ma))

-----------------------------------------------------------------------------
(* SpecTouch: one call of is_wick_touch on any candle, average and alpha_wick *)

Prices == 0..MaxPrice

Candles == [open : Prices, high : Prices, low : Prices, close : Prices]

\* averages on the half-integer grid that spans the prices, and NaN
Averages == {Rat(a, 2) : a \in 0..(2 * MaxPrice + 1)} \cup {NaN}

Alphas == {Rat(0, 1), DefaultAlphaWick, Rat(1, 2), Rat(1, 1)}

\* the variables of the calls a specification does not make keep these values
NoTouchCall == row = None /\ ma_value = NaN /\ factor = NaN

NoFrame == df = <<>>

NoMetricsCall == events_df = <<>>

NoFileLoop == period = 0 /\ ti = 0 /\ results = <<>>

NoFetch ==
    /\ csv = None /\ since = 0 /\ now = 0 /\ fetch_since = 0
    /\ first_write = FALSE /\ bars = <<>> /\ total_written = 0 /\ runs = 0

NoSweep ==
    /\ csv_files = <<>> /\ fidx = 0 /\ all_results = <<>>
    /\ summary_file = None /\ analyzed = <<>>

InitTouch ==
    /\ NoFetch
    /\ NoFrame /\ NoMetricsCall /\ NoFileLoop /\ NoSweep
    /\ pc = "is_wick_touch"
    /\ ret = None
    /\ row \in Candles
    /\ ma_value \in Averages
    /\ factor = NaN
    /\ \E a \in Alphas : config = [BaseConfig EXCEPT !.alpha_wick = a]

CallIsWickTouch ==
    /\ pc = "is_wick_touch"
    /\ ret' = is_wick_touch(row, ma_value)
    /\ pc' = "touch_returned"
    /\ UNCHANGED <<fetchVars, config, df, events_df, touchVars, fileVars, sweepVars>>

NextTouch == CallIsWickTouch

SpecTouch == InitTouch /\ [][NextTouch]_vars

-----------------------------------------------------------------------------
(* Analyzer.analyze_events.  A DataFrame is a sequence of rows             *)
(* [ts, open, high, low, close, ma]: ts is the row's index label and ma    *)
(* the value of the column ma_col.  Positions are 0-based as in the code:  *)
(* iloc(d, i) is df.iloc[i].  Prices of a frame are positive.              *)

iloc(d, i) == d[i + 1]

\* self.is_wick_touch(df.iloc[j], df.iloc[j][ma_col])
touch_at(d, j) == is_wick_touch(iloc(d, j), iloc(d, j).ma)

start_pre(idx) == Max(0, idx - config.n_pre)

\* mutant: the post-window always holds the next candle
end_post_next(d, idx) == Min(Len(d) - 1, idx + config.n_post + 1)

end_post(d, idx) == Min(Len(d) - 1, idx + config.n_post)

\* mutant: a window that crosses an end of the frame rejects the touch
isolated_rejects_edges(d, idx) ==
    /\ idx - config.n_pre >= 0
    /\ idx + config.n_post <= Len(d) - 1
    /\ \A j \in start_pre(idx)..(idx - 1) : touch_at(d, j) = 0
    /\ \A j \in (idx + 1)..end_post(d, idx) : touch_at(d, j) = 0

\* mutant: only the window before the touch is looked at
isolated_pre_only(d, idx) ==
    \A j \in start_pre(idx)..(idx - 1) : touch_at(d, j) = 0

\* the two loops of lines 120-129
isolated(d, idx) ==
    /\ \A j \in start_pre(idx)..(idx - 1) : touch_at(d, j) = 0
    /\ \A j \in (idx + 1)..end_post(d, idx) : touch_at(d, j) = 0

\* mutant: range(1, lookahead_limit) for range(1, lookahead_limit + 1)
lookahead_limit_short(d, idx) ==
    IF config.max_lookahead # None THEN config.max_lookahead[1] - 1
    ELSE Len(d) - idx - 2

\* mutant: max_lookahead is ignored, the walk always runs to the end
lookahead_limit_unbounded(d, idx) == Len(d) - idx - 1

lookahead_limit(d, idx) ==
    IF config.max_lookahead # None THEN config.max_lookahead[1]
    ELSE Len(d) - idx - 1

\* x >= close_price * (1 + touch * target_pct)
ge_target(x, close_price, touch) ==
    x * config.target_pct.d
        >= close_price * (config.target_pct.d + touch * config.target_pct.n)

\* x <= close_price * (1 + touch * target_pct)
le_target(x, close_price, touch) ==
    x * config.target_pct.d
        <= close_price * (config.target_pct.d + touch * config.target_pct.n)

\* a > b for rationals with positive denominators
RatGT(a, b) == a.n * b.d > b.n * a.d

RatEQ(a, b) == a.n * b.d = b.n * a.d

\* mutant: adverse_max = adverse, no running maximum
py_max_last(a, b) == b

\* Python's max(adverse_max, adverse): the first argument unless the second is larger
py_max(a, b) == IF RatGT(b, a) THEN b ELSE a

\* mutant: the excursion measured in the direction of the trade
adverse_of_favourable(frow, close_price, touch) ==
    IF touch = 1 THEN Rat(frow.low - close_price, close_price)
    ELSE Rat(close_price - frow.high, close_price)

\* adverse of lines 163 and 174
adverse_of(frow, close_price, touch) ==
    IF touch = 1 THEN Rat(close_price - frow.low, close_price)
    ELSE Rat(frow.high - close_price, close_price)

\* mutant: a candle that returns exactly to the entry close does not invalidate
invalidates_strict(frow, close_price, touch) ==
    IF touch = 1 THEN frow.low < close_price ELSE frow.high > close_price

\* the forward candle invalidates the event (lines 155, 166)
invalidates(frow, close_price, touch) ==
    IF touch = 1 THEN frow.low <= close_price ELSE frow.high >= close_price

\* the forward candle reaches the target (lines 159, 170)
reaches_target(frow, close_price, touch) ==
    IF touch = 1 THEN ge_target(frow.high, close_price, touch)
    ELSE le_target(frow.low, close_price, touch)

\* The loop of lines 147-176 from offset k on.  examined is the set of the
\* positions whose row the loop has read (line 151); it is not a field of
\* the code's event and is kept for the statements about the walk.
RECURSIVE walk(_, _, _, _, _, _)
walk(d, idx, touch, k, adverse_max, examined) ==
    IF k > lookahead_limit(d, idx) \/ idx + k >= Len(d)
    THEN [reached |-> FALSE, time_to_target |-> None,
          adverse_max |-> adverse_max, examined |-> examined]
    ELSE LET frow == iloc(d, idx + k)
             close_price == iloc(d, idx).close
             seen == examined \cup {idx + k}
         IN  IF invalidates(frow, close_price, touch)
             THEN [reached |-> FALSE, time_to_target |-> None,
                   adverse_max |-> adverse_max, examined |-> seen]
             ELSE IF reaches_target(frow, close_price, touch)
             THEN [reached |-> TRUE, time_to_target |-> Some(k),
                   adverse_max |-> adverse_max, examined |-> seen]
             ELSE walk(d, idx, touch, k + 1,
                       py_max(adverse_max, adverse_of(frow, close_price, touch)),
                       seen)

\* the dictionary appended at lines 178-185
event_of(d, idx, touch) ==
    LET w == walk(d, idx, touch, 1, Rat(0, 1), {})
    IN  [idx |-> idx, datetime |-> iloc(d, idx).ts, type |-> touch,
         reached |-> w.reached, time_to_target |-> w.time_to_target,
         adverse_max |-> w.adverse_max, examined |-> w.examined]

\* the loop of line 105 from position idx on
RECURSIVE scan(_, _, _)
scan(d, idx, events) ==
    IF idx >= Len(d) THEN events
    ELSE IF iloc(d, idx).ma.nan THEN scan(d, idx + 1, events)
    ELSE IF touch_at(d, idx) = 0 THEN scan(d, idx + 1, events)
    ELSE IF ~isolated(d, idx) THEN scan(d, idx + 1, events)
    ELSE scan(d, idx + 1, Append(events, event_of(d, idx, touch_at(d, idx))))

analyze_events(d) == scan(d, 0, <<>>)

-----------------------------------------------------------------------------
(* SpecEvents: one call of analyze_events on a frame whose average column  *)
(* is given.  The rows are drawn from candles around an entry close of 4:  *)
(* a bullish and a bearish touch, forward candles that continue, succeed   *)
(* or invalidate (D and B also tie: they retrace to the entry and reach    *)
(* the 50% target of the other side), and a touch-shaped candle whose      *)
(* average is NaN.                                                         *)

RowB == [open |-> 4, high |-> 4, low |-> 2, close |-> 4, ma |-> Rat(3, 1)]
RowD == [open |-> 4, high |-> 6, low |-> 4, close |-> 4, ma |-> Rat(5, 1)]
RowU == [open |-> 5, high |-> 5, low |-> 5, close |-> 5, ma |-> Rat(3, 1)]
RowV == [open |-> 5, high |-> 6, low |-> 5, close |-> 6, ma |-> Rat(3, 1)]
RowW == [open |-> 3, high |-> 3, low |-> 3, close |-> 3, ma |-> Rat(5, 1)]
RowX == [open |-> 3, high |-> 3, low |-> 2, close |-> 3, ma |-> Rat(5, 1)]
RowN == [open |-> 4, high |-> 4, low |-> 2, close |-> 4, ma |-> NaN]

EventRows == {RowB, RowD, RowU, RowV, RowW, RowX, RowN}

\* a frame with a RangeIndex: the row at position i has the label i
Frame(rows) ==
    [i \in 1..Len(rows) |->
        [ts |-> i - 1, open |-> rows[i].open, high |-> rows[i].high,
         low |-> rows[i].low, close |-> rows[i].close, ma |-> rows[i].ma]]

EventFrames ==
    UNION {{Frame(rows) : rows \in [1..len -> EventRows]} : len \in 0..MaxLen}

Targets == {Rat(0, 1), Rat(1, 2)}

Lookaheads == {None} \cup {Some(n) : n \in 1..MaxLook}

InitEvents ==
    /\ NoFetch
    /\ NoTouchCall /\ NoMetricsCall /\ NoFileLoop /\ NoSweep
    /\ pc = "analyze_events"
    /\ ret = None
    /\ df \in EventFrames
    /\ \E pre \in 0..MaxWin, post \in 0..MaxWin, t \in Targets, la \in Lookaheads :
          config = [BaseConfig EXCEPT !.n_pre = pre, !.n_post = post,
                                         !.target_pct = t, !.max_lookahead = la]

CallAnalyzeEvents ==
    /\ pc = "analyze_events"
    /\ ret' = analyze_events(df)
    /\ pc' = "events_returned"
    /\ UNCHANGED <<fetchVars, config, df, events_df, touchVars, fileVars, sweepVars>>

NextEvents == CallAnalyzeEvents

SpecEvents == InitEvents /\ [][NextEvents]_vars

-----------------------------------------------------------------------------
(* Analyzer.compute_mas and DataFrame.dropna.  A loaded frame has rows     *)
(* [ts, open, high, low, close] with no missing value, so a row is dropped *)
(* exactly when its average is NaN.                                        *)

RECURSIVE sum_closes(_, _, _)
sum_closes(d, first, last) ==
    IF first > last THEN 0
    ELSE iloc(d, first).close + sum_closes(d, first + 1, last)

\* df['close'].rolling(window=period).mean() at position i; the mean of
\* the empty window of period 0 is NaN
sma_at(d, prd, i) ==
    IF prd = 0 \/ i < prd - 1 THEN NaN
    ELSE Rat(sum_closes(d, i - prd + 1, i), prd)

RECURSIVE pow(_, _)
pow(b, e) == IF e = 0 THEN 1 ELSE b * pow(b, e - 1)

\* the numerator of the exponential average at position i over the
\* denominator (period + 1)^i: y_0 = x_0, y_i = (1 - a) y_(i-1) + a x_i
\* with a = 2 / (period + 1)
RECURSIVE ema_num(_, _, _)
ema_num(d, prd, i) ==
    IF i = 0 THEN iloc(d, 0).close
    ELSE (prd - 1) * ema_num(d, prd, i - 1)
            + 2 * iloc(d, i).close * pow(prd + 1, i - 1)

\* df['close'].ewm(span=period, adjust=False).mean() at position i
ema_at(d, prd, i) == Rat(ema_num(d, prd, i), pow(prd + 1, i))

\* compute_mas raises ValueError: rolling wants window >= 0 and ewm wants
\* span >= 1
compute_mas_raises(prd, ma_type) ==
    IF ma_type = "SMA" THEN prd < 0 ELSE prd < 1

\* compute_mas(df, period, [ma_type]): the frame with the average column
compute_mas(d, prd, ma_type) ==
    [i \in 1..Len(d) |->
        [ts |-> d[i].ts, open |-> d[i].open, high |-> d[i].high,
         low |-> d[i].low, close |-> d[i].close, volume |-> d[i].volume,
         ma |-> IF ma_type = "SMA" THEN sma_at(d, prd, i - 1)
                ELSE ema_at(d, prd, i - 1)]]

\* the row has a missing value in one of its columns; of the loaded
\* columns the volume is the one that may be empty here
has_nan(r) == r.ma.nan \/ r.volume.nan

\* df_temp.dropna(): the rows without a missing value in any column
RECURSIVE dropna(_)
dropna(d) ==
    IF d = <<>> THEN <<>>
    ELSE IF has_nan(Head(d)) THEN dropna(Tail(d))
    ELSE <<Head(d)>> \o dropna(Tail(d))

-----------------------------------------------------------------------------
(* Analyzer.calculate_metrics.  win_rate is kept in hundredths and         *)
(* avg_adverse_max in ten-thousandths, as round(x, 2) and round(x, 4)      *)
(* leave them.                                                             *)

\* n / d rounded to the nearest integer, halves to even, for d > 0
round_div(n, d) ==
    LET a == IF n >= 0 THEN n ELSE -n
        q == a \div d
        r == a % d
        m == IF 2 * r < d THEN q
             ELSE IF 2 * r > d THEN q + 1
             ELSE IF q % 2 = 0 THEN q ELSE q + 1
    IN  IF n >= 0 THEN m ELSE -m

\* round(x, digits) for a rational x, over the denominator 10^digits
py_round(x, digits) ==
    Rat(round_div(x.n * pow(10, digits), x.d), pow(10, digits))

RatAdd(a, b) == Rat(a.n * b.d + b.n * a.d, a.d * b.d)

RECURSIVE select(_, _)
select(events, keep_reached) ==
    IF events = <<>> THEN <<>>
    ELSE IF Head(events).reached = keep_reached
         THEN <<Head(events)>> \o select(Tail(events), keep_reached)
         ELSE select(Tail(events), keep_reached)

\* events_df[events_df['reached']]['time_to_target'].dropna()
RECURSIVE times_to_target(_)
times_to_target(events) ==
    IF events = <<>> THEN <<>>
    ELSE IF Head(events).reached /\ Head(events).time_to_target # None
         THEN <<Head(events).time_to_target[1]>> \o times_to_target(Tail(events))
         ELSE times_to_target(Tail(events))

RECURSIVE sum_ints(_)
sum_ints(xs) == IF xs = <<>> THEN 0 ELSE Head(xs) + sum_ints(Tail(xs))

\* Series.mean()
mean_ints(xs) == Rat(sum_ints(xs), Len(xs))

\* the k-th smallest element of xs (k from 1)
kth_smallest(xs, k) ==
    CHOOSE v \in {xs[i] : i \in 1..Len(xs)} :
        /\ Cardinality({i \in 1..Len(xs) : xs[i] < v}) < k
        /\ Cardinality({i \in 1..Len(xs) : xs[i] <= v}) >= k

\* Series.median()
median_ints(xs) ==
    IF Len(xs) % 2 = 1 THEN Rat(kth_smallest(xs, (Len(xs) + 1) \div 2), 1)
    ELSE Rat(kth_smallest(xs, Len(xs) \div 2)
                + kth_smallest(xs, Len(xs) \div 2 + 1), 2)

RECURSIVE sum_adverse(_)
sum_adverse(events) ==
    IF events = <<>> THEN Rat(0, 1)
    ELSE RatAdd(Head(events).adverse_max, sum_adverse(Tail(events)))

\* events_df['adverse_max'].mean()
mean_adverse(events) ==
    LET t == sum_adverse(events) IN Rat(t.n, t.d * Len(events))

\* mutant: the win rate as a fraction, not a percentage
win_rate_fraction(reached, total) ==
    IF total > 0 THEN py_round(Rat(reached, total), 2) ELSE Rat(0, 100)

\* round((reached / total * 100) if total > 0 else 0, 2)
win_rate_of(reached, total) ==
    IF total > 0 THEN py_round(Rat(reached * 100, total), 2) ELSE Rat(0, 100)

\* a number is true unless it is zero (NaN is true)
truthy(x) == x.nan \/ x.n # 0

calculate_metrics(events) ==
    IF Len(events) = 0
    THEN [total_events |-> 0, win_rate |-> Rat(0, 100), wins |-> 0, losses |-> 0,
          avg_time_to_target |-> None, median_time_to_target |-> None]
    ELSE LET reached == Len(select(events, TRUE))
             not_reached == Len(select(events, FALSE))
             total == Len(events)
             times == times_to_target(events)
             avg_adverse == mean_adverse(events)
         IN  [total_events |-> total,
              win_rate |-> win_rate_of(reached, total),
              wins |-> reached,
              losses |-> not_reached,
              avg_time_to_target |->
                  IF Len(times) > 0 THEN Some(mean_ints(times)) ELSE None,
              median_time_to_target |->
                  IF Len(times) > 0 THEN Some(median_ints(times)) ELSE None,
              avg_adverse_max |->
                  IF truthy(avg_adverse) THEN Some(py_round(avg_adverse, 4))
                  ELSE None]

-----------------------------------------------------------------------------
(* SpecMetrics: one call of calculate_metrics on any list of events.       *)

AdverseValues == {Rat(0, 1), Rat(1, 3)}

MetricEvents ==
    {[reached |-> TRUE, time_to_target |-> Some(k), adverse_max |-> a] :
        k \in 1..MaxLook, a \in AdverseValues}
    \cup {[reached |-> FALSE, time_to_target |-> None, adverse_max |-> a] :
        a \in AdverseValues}

InitMetrics ==
    /\ NoFetch
    /\ NoTouchCall /\ NoFrame /\ NoFileLoop /\ NoSweep
    /\ pc = "calculate_metrics"
    /\ ret = None
    /\ config = BaseConfig
    /\ events_df \in UNION {[1..len -> MetricEvents] : len \in 0..MaxEvents}

CallCalculateMetrics ==
    /\ pc = "calculate_metrics"
    /\ ret' = calculate_metrics(events_df)
    /\ pc' = "metrics_returned"
    /\ UNCHANGED <<fetchVars, config, df, events_df, touchVars, fileVars, sweepVars>>

NextMetrics == CallCalculateMetrics

SpecMetrics == InitMetrics /\ [][NextMetrics]_vars

-----------------------------------------------------------------------------
(* Analyzer.analyze_file: the loops of lines 251 and 253, one combination  *)
(* (period, ma_type) per step.                                             *)

\* mutant: a combination with exactly min_events_for_significance events is dropped
below_gate_inclusive(events) ==
    Len(events) <= config.min_events_for_significance

\* len(events_df) < self.config.min_events_for_significance
below_gate(events) == Len(events) < config.min_events_for_significance

\* df_temp of lines 255-256
df_temp_of(d, prd, ma_type) == dropna(compute_mas(d, prd, ma_type))

\* the dictionary of lines 273-279
result_of(file, prd, ma_type, metrics) ==
    [k \in {"symbol", "timeframe", "ma_type", "period"} \cup DOMAIN metrics |->
        IF k = "symbol" THEN file.symbol
        ELSE IF k = "timeframe" THEN file.timeframe
        ELSE IF k = "ma_type" THEN ma_type
        ELSE IF k = "period" THEN prd
        ELSE metrics[k]]

\* what one pass of the loop body appends to results: nothing or one record
combination(file, d, prd, ma_type) ==
    LET df_temp == df_temp_of(d, prd, ma_type)
    IN  IF Len(df_temp) = 0 THEN <<>>
        ELSE LET events == analyze_events(df_temp)
             IN  IF below_gate(events) THEN <<>>
                 ELSE <<result_of(file, prd, ma_type, calculate_metrics(events))>>

\* the file whose content SpecFile analyzes
TheFile == [symbol |-> "BTC/USDT", timeframe |-> "1h"]

\* the loops are over: no period or no type is left
loops_done ==
    \/ period > config.ma_period_max
    \/ config.ma_types = <<>>

AnalyzeFileLoad ==
    /\ pc = "analyze_file"
    /\ IF Len(df) = 0
       THEN /\ pc' = "file_returned"
            /\ ret' = <<>>
            /\ UNCHANGED <<period, ti, results>>
       ELSE /\ pc' = "file_loop"
            /\ period' = config.ma_period_min
            /\ ti' = 1
            /\ results' = <<>>
            /\ UNCHANGED ret
    /\ UNCHANGED <<fetchVars, config, df, events_df, touchVars, sweepVars>>

\* mutant: the average is added to, and its empty rows dropped from, the
\* loaded frame itself
AnalyzeFileCombination_in_place ==
    /\ pc = "file_loop"
    /\ ~loops_done
    /\ df' = df_temp_of(df, period, config.ma_types[ti])
    /\ results' = results \o combination(TheFile, df, period, config.ma_types[ti])
    /\ IF ti < Len(config.ma_types)
       THEN ti' = ti + 1 /\ UNCHANGED period
       ELSE ti' = 1 /\ period' = period + 1
    /\ UNCHANGED <<fetchVars, config, pc, events_df, ret, touchVars, sweepVars>>

\* one iteration of lines 251-286; compute_mas and dropna return new frames
AnalyzeFileCombination ==
    /\ pc = "file_loop"
    /\ ~loops_done
    /\ results' = results \o combination(TheFile, df, period, config.ma_types[ti])
    /\ IF ti < Len(config.ma_types)
       THEN ti' = ti + 1 /\ UNCHANGED period
       ELSE ti' = 1 /\ period' = period + 1
    /\ UNCHANGED <<fetchVars, config, pc, df, events_df, ret, touchVars, sweepVars>>

AnalyzeFileReturn ==
    /\ pc = "file_loop"
    /\ loops_done
    /\ pc' = "file_returned"
    /\ ret' = results
    /\ UNCHANGED <<fetchVars, config, df, events_df, touchVars, fileVars, sweepVars>>

\* loaded candles: closes of 2 and 6, flat or with a wick of 2 towards the
\* other close, so that the averages of periods >= 2 are touched
\* RawM is RawQ with an empty volume cell
RawP == [open |-> 2, high |-> 2, low |-> 2, close |-> 2, volume |-> Rat(1, 1)]
RawQ == [open |-> 6, high |-> 6, low |-> 4, close |-> 6, volume |-> Rat(1, 1)]
RawR == [open |-> 2, high |-> 4, low |-> 2, close |-> 2, volume |-> Rat(1, 1)]
RawS == [open |-> 6, high |-> 6, low |-> 6, close |-> 6, volume |-> Rat(1, 1)]
RawM == [open |-> 6, high |-> 6, low |-> 4, close |-> 6, volume |-> NaN]

RawRows == {RawP, RawQ, RawR, RawS, RawM}

\* a loaded frame: the row at position i has the timestamp i
RawFrame(rows) ==
    [i \in 1..Len(rows) |->
        [ts |-> i - 1, open |-> rows[i].open, high |-> rows[i].high,
         low |-> rows[i].low, close |-> rows[i].close,
         volume |-> rows[i].volume]]

RawFrames ==
    UNION {{RawFrame(rows) : rows \in [1..len -> RawRows]} : len \in 0..MaxLen}

TypeLists == {<<"SMA">>, <<"EMA">>, <<"SMA", "EMA">>, <<"EMA", "SMA">>}

InitFile ==
    /\ NoFetch
    /\ NoTouchCall /\ NoMetricsCall /\ NoFileLoop /\ NoSweep
    /\ pc = "analyze_file"
    /\ ret = None
    /\ df \in RawFrames
    /\ \E lo \in 1..MaxPeriod, hi \in 1..MaxPeriod, types \in TypeLists,
          gate \in 0..MaxMinEvents :
          /\ lo <= hi
          /\ config = [BaseConfig EXCEPT !.ma_period_min = lo,
                                         !.ma_period_max = hi,
                                         !.ma_types = types,
                                         !.target_pct = Rat(1, 2),
                                         !.min_events_for_significance = gate]

NextFile == AnalyzeFileLoad \/ AnalyzeFileCombination \/ AnalyzeFileReturn

SpecFile == InitFile /\ [][NextFile]_vars

-----------------------------------------------------------------------------
(* Analyzer._parse_timeframe.  A label is a sequence of characters.        *)

Digits == {"0", "1", "2", "3", "4", "5", "6", "7", "8", "9"}

digit_value(c) ==
    CASE c = "0" -> 0 [] c = "1" -> 1 [] c = "2" -> 2 [] c = "3" -> 3
      [] c = "4" -> 4 [] c = "5" -> 5 [] c = "6" -> 6 [] c = "7" -> 7
      [] c = "8" -> 8 [] c = "9" -> 9

\* unit in tf
contains(tf, unit) == \E i \in 1..Len(tf) : tf[i] = unit

\* tf.replace(unit, '')
RECURSIVE remove(_, _)
remove(tf, unit) ==
    IF tf = <<>> THEN <<>>
    ELSE IF Head(tf) = unit THEN remove(Tail(tf), unit)
    ELSE <<Head(tf)>> \o remove(Tail(tf), unit)

\* int(text) succeeds on a non-empty run of digits
is_int_literal(text) ==
    /\ text # <<>>
    /\ \A i \in 1..Len(text) : text[i] \in Digits

RECURSIVE int_value(_)
int_value(text) ==
    IF text = <<>> THEN 0
    ELSE 10 * int_value(SubSeq(text, 1, Len(text) - 1))
            + digit_value(text[Len(text)])

\* the multipliers dictionary, in its iteration order
Units == <<"m", "h", "d", "w">>

multiplier(unit) ==
    CASE unit = "m" -> 60 [] unit = "h" -> 3600
      [] unit = "d" -> 86400 [] unit = "w" -> 604800

\* the first unit of the dictionary that occurs in tf, 0 when none does
first_unit(tf) ==
    IF \E u \in 1..Len(Units) : contains(tf, Units[u])
    THEN CHOOSE u \in 1..Len(Units) :
            /\ contains(tf, Units[u])
            /\ \A v \in 1..(u - 1) : ~contains(tf, Units[v])
    ELSE 0

\* int() raises ValueError inside _parse_timeframe
parse_raises(tf) ==
    /\ first_unit(tf) # 0
    /\ ~is_int_literal(remove(tf, Units[first_unit(tf)]))

\* the seconds _parse_timeframe returns when it does not raise
parse_timeframe(tf) ==
    IF first_unit(tf) = 0 THEN 0
    ELSE int_value(remove(tf, Units[first_unit(tf)]))
            * multiplier(Units[first_unit(tf)])

\* self._parse_timeframe('1d')
one_day == parse_timeframe(<<"1", "d">>)

-----------------------------------------------------------------------------
(* Analyzer.analyze_file as one call, and Analyzer.analyze_all_data, one   *)
(* file of the loop of line 306 per step.  A file is                       *)
(* [head, tf, readable, rows]: its stem split at '_' is head followed by   *)
(* tf; pd.read_csv raises when it is not readable and gives rows when it   *)
(* is.                                                                     *)

\* the loops of lines 251-253 from (prd, t) on
RECURSIVE file_loop(_, _, _, _)
file_loop(file, d, prd, t) ==
    IF prd > config.ma_period_max \/ config.ma_types = <<>> THEN <<>>
    ELSE combination(file, d, prd, config.ma_types[t])
            \o (IF t < Len(config.ma_types)
                THEN file_loop(file, d, prd, t + 1)
                ELSE file_loop(file, d, prd + 1, 1))

analyze_file(file, d) ==
    IF Len(d) = 0 THEN <<>>
    ELSE file_loop(file, d, config.ma_period_min, 1)

\* an exception leaves analyze_file: pd.read_csv raises, or compute_mas
\* does for one of the combinations of lines 251-253
analyze_file_raises(f) ==
    \/ ~f.readable
    \/ /\ Len(f.rows) # 0
       /\ \E prd \in config.ma_period_min..config.ma_period_max,
             t \in 1..Len(config.ma_types) :
             compute_mas_raises(prd, config.ma_types[t])

\* parts = filepath.stem.split('_')
parts_len(f) == Len(f.head) + 1

\* symbol = '_'.join(parts[1:-1]).replace('_', '/'): the tokens between
\* the exchange and the label
symbol_of(f) == SubSeq(f.head, 2, Len(f.head))

file_tag(f) == [symbol |-> symbol_of(f), timeframe |-> f.tf]

\* mutant: the records stay in the order they were collected
collected_order(rs) == {rs}

\* the permutations of a list of records ordered by win_rate, largest
\* first; the order of equal win rates is the sort's choice
sorted_by_win_rate(rs) ==
    {out \in [1..Len(rs) -> {rs[n] : n \in 1..Len(rs)}] :
        /\ \A r \in {rs[n] : n \in 1..Len(rs)} :
              Cardinality({n \in 1..Len(rs) : out[n] = r})
                  = Cardinality({n \in 1..Len(rs) : rs[n] = r})
        /\ \A n \in 1..(Len(rs) - 1) :
              ~RatGT(out[n + 1].win_rate, out[n].win_rate)}

CurrentFile == csv_files[fidx]

InLoop == pc = "sweep_loop" /\ fidx <= Len(csv_files)

NextFileStep == fidx' = fidx + 1

\* lines 299-304
SweepGlob ==
    /\ pc = "analyze_all_data"
    /\ IF csv_files = <<>>
       THEN pc' = "sweep_returned" /\ ret' = <<>> /\ UNCHANGED fidx
       ELSE pc' = "sweep_loop" /\ fidx' = 1 /\ UNCHANGED ret
    /\ UNCHANGED <<fetchVars, config, df, events_df, touchVars, fileVars, csv_files,
                   all_results, summary_file, analyzed>>

\* lines 308-311
SweepSkipName ==
    /\ InLoop
    /\ parts_len(CurrentFile) < 3
    /\ NextFileStep
    /\ UNCHANGED <<fetchVars, config, pc, df, events_df, ret, touchVars, fileVars,
                   csv_files, all_results, summary_file, analyzed>>

\* line 317 raises: the exception leaves analyze_all_data
SweepParseRaises ==
    /\ InLoop
    /\ parts_len(CurrentFile) >= 3
    /\ parse_raises(CurrentFile.tf)
    /\ pc' = "sweep_raised"
    /\ UNCHANGED <<fetchVars, config, df, events_df, ret, touchVars, fileVars, sweepVars>>

\* lines 317-320
SweepSkipTimeframe ==
    /\ InLoop
    /\ parts_len(CurrentFile) >= 3
    /\ ~parse_raises(CurrentFile.tf)
    /\ parse_timeframe(CurrentFile.tf) >= one_day
    /\ NextFileStep
    /\ UNCHANGED <<fetchVars, config, pc, df, events_df, ret, touchVars, fileVars,
                   csv_files, all_results, summary_file, analyzed>>

\* lines 322-328
SweepAnalyzeFile ==
    /\ InLoop
    /\ parts_len(CurrentFile) >= 3
    /\ ~parse_raises(CurrentFile.tf)
    /\ parse_timeframe(CurrentFile.tf) < one_day
    /\ analyzed' = Append(analyzed, fidx)
    /\ IF ~analyze_file_raises(CurrentFile)
       THEN all_results' =
               all_results \o analyze_file(file_tag(CurrentFile), CurrentFile.rows)
       ELSE UNCHANGED all_results
    /\ NextFileStep
    /\ UNCHANGED <<fetchVars, config, pc, df, events_df, ret, touchVars, fileVars,
                   csv_files, summary_file>>

\* lines 330-332
SweepReturnEmpty ==
    /\ pc = "sweep_loop" /\ fidx > Len(csv_files)
    /\ all_results = <<>>
    /\ pc' = "sweep_returned"
    /\ ret' = <<>>
    /\ UNCHANGED <<fetchVars, config, df, events_df, touchVars, fileVars, sweepVars>>

\* lines 334-344
SweepWrite ==
    /\ pc = "sweep_loop" /\ fidx > Len(csv_files)
    /\ all_results # <<>>
    /\ \E table \in sorted_by_win_rate(all_results) :
          /\ summary_file' = Some(table)
          /\ ret' = table
    /\ pc' = "sweep_returned"
    /\ UNCHANGED <<fetchVars, config, df, events_df, touchVars, fileVars, csv_files,
                   fidx, all_results, analyzed>>

\* candles of the swept files: RawT lets a bullish touch of RawQ reach a
\* 50% target
RawT == [open |-> 9, high |-> 9, low |-> 9, close |-> 9, volume |-> Rat(1, 1)]

SweepData ==
    {[readable |-> FALSE, rows |-> <<>>],
     [readable |-> TRUE, rows |-> <<>>],
     [readable |-> TRUE, rows |-> RawFrame(<<RawP, RawQ>>)],
     [readable |-> TRUE, rows |-> RawFrame(<<RawP, RawQ, RawT>>)]}

SweepLabels ==
    {<<"1", "h">>, <<"4", "h">>, <<"1", "m">>, <<"1", "d">>, <<"1", "w">>,
     <<"x">>, <<"1", "5">>, <<"h", "d">>}

SweepFiles ==
    {[head |-> <<"bybit", "BTC", "USDT">>, tf |-> l,
      readable |-> c.readable, rows |-> c.rows] :
        l \in SweepLabels, c \in SweepData}
    \cup {[head |-> <<"bybit">>, tf |-> <<"1", "h">>,
           readable |-> TRUE, rows |-> RawFrame(<<RawP, RawQ>>)]}

InitSweep ==
    /\ NoFetch
    /\ NoTouchCall /\ NoFrame /\ NoMetricsCall /\ NoFileLoop
    /\ pc = "analyze_all_data"
    /\ ret = None
    /\ config = [BaseConfig EXCEPT !.ma_period_min = 2, !.ma_period_max = 2,
                                   !.ma_types = <<"SMA">>,
                                   !.target_pct = Rat(1, 2),
                                   !.min_events_for_significance = 1]
    /\ csv_files \in UNION {[1..len -> SweepFiles] : len \in 0..MaxFiles}
    /\ fidx = 0 /\ all_results = <<>> /\ summary_file = None /\ analyzed = <<>>

NextSweep ==
    \/ SweepGlob \/ SweepSkipName \/ SweepParseRaises \/ SweepSkipTimeframe
    \/ SweepAnalyzeFile \/ SweepReturnEmpty \/ SweepWrite

SpecSweep == InitSweep /\ [][NextSweep]_vars

-----------------------------------------------------------------------------
(* SpecConfig: analyze_all_data of an Analyzer constructed with any        *)
(* AnalysisConfig.  Neither AnalysisConfig (src/src/config.py) nor         *)
(* Analyzer.__init__ looks at the values, so the state after construction  *)
(* holds whatever period range and type list the caller gave.              *)

ConfigPeriods == 0..MaxPeriod

ConfigTypeLists == TypeLists \cup {<<>>}

ConfigLabels == {<<"1", "h">>, <<"1", "d">>, <<"h", "d">>}

ConfigFiles ==
    {[head |-> <<"bybit", "BTC", "USDT">>, tf |-> <<"1", "h">>,
      readable |-> c.readable, rows |-> c.rows] : c \in SweepData}
    \cup {[head |-> <<"bybit", "BTC", "USDT">>, tf |-> l,
           readable |-> TRUE, rows |-> RawFrame(<<RawP, RawQ, RawT>>)] :
              l \in ConfigLabels}
    \cup {[head |-> <<"bybit">>, tf |-> <<"1", "h">>,
           readable |-> TRUE, rows |-> RawFrame(<<RawP, RawQ>>)]}

\* Analyzer.__init__: self.config = analysis_config
InitConfig ==
    /\ NoFetch
    /\ NoTouchCall /\ NoFrame /\ NoMetricsCall /\ NoFileLoop
    /\ pc = "analyze_all_data"
    /\ ret = None
    /\ \E lo \in ConfigPeriods, hi \in ConfigPeriods, types \in ConfigTypeLists :
          config = [BaseConfig EXCEPT !.ma_period_min = lo,
                                      !.ma_period_max = hi,
                                      !.ma_types = types,
                                      !.target_pct = Rat(1, 2),
                                      !.min_events_for_significance = 1]
    /\ csv_files \in UNION {[1..len -> ConfigFiles] : len \in 0..MaxFiles}
    /\ fidx = 0 /\ all_results = <<>> /\ summary_file = None /\ analyzed = <<>>

SpecConfig == InitConfig /\ [][NextSweep]_vars

-----------------------------------------------------------------------------
(* SpecRuns: analyze_all_data called again and again on whatever DATA_DIR  *)
(* holds at each call.  RESULTS_DIR/analysis_results.csv outlives the      *)
(* calls; every other variable of the sweep is a local of one call.        *)

RunFileLists == UNION {[1..len -> ConfigFiles] : len \in 0..MaxFiles}

\* a new call after the previous one returned or raised (line 297)
CallAnalyzeAllData ==
    /\ pc \in {"sweep_returned", "sweep_raised"}
    /\ pc' = "analyze_all_data"
    /\ csv_files' \in RunFileLists
    /\ fidx' = 0
    /\ all_results' = <<>>
    /\ analyzed' = <<>>
    /\ ret' = None
    /\ UNCHANGED <<fetchVars, config, df, events_df, touchVars, fileVars, summary_file>>

InitRuns ==
    /\ NoFetch
    /\ NoTouchCall /\ NoFrame /\ NoMetricsCall /\ NoFileLoop
    /\ pc = "analyze_all_data"
    /\ ret = None
    /\ config = [BaseConfig EXCEPT !.ma_period_min = 2, !.ma_period_max = 2,
                                   !.ma_types = <<"SMA">>,
                                   !.target_pct = Rat(1, 2),
                                   !.min_events_for_significance = 1]
    /\ csv_files \in RunFileLists
    /\ fidx = 0 /\ all_results = <<>> /\ summary_file = None /\ analyzed = <<>>

NextRuns == NextSweep \/ CallAnalyzeAllData

SpecRuns == InitRuns /\ [][NextRuns]_vars

-----------------------------------------------------------------------------
(* Analyzer.is_wick_touch in binary floating point.  The prices, the       *)
(* average and alpha_wick are Python floats, and high_ - low_,             *)
(* body_low - low_, high_ - body_high and alpha_wick * candle_size are     *)
(* each rounded to the nearest float, ties to even.  A float here has      *)
(* Precision significand bits (binary64 has 53) and any exponent; it is    *)
(* kept as the rational it stands for.                                     *)

Precision == 4

RECURSIVE gcd(_, _)
gcd(a, b) == IF b = 0 THEN a ELSE gcd(b, a % b)

\* the rational in lowest terms
RatNorm(x) ==
    LET g == gcd(IF x.n >= 0 THEN x.n ELSE -x.n, x.d)
    IN  Rat(x.n \div g, x.d \div g)

\* n / d > 0 rounded to Precision significand bits
RECURSIVE fl_pos(_, _)
fl_pos(n, d) ==
    IF n >= d * pow(2, Precision)
    THEN LET r == fl_pos(n, 2 * d) IN Rat(2 * r.n, r.d)
    ELSE IF n < d * pow(2, Precision - 1)
    THEN LET r == fl_pos(2 * n, d) IN Rat(r.n, 2 * r.d)
    ELSE Rat(round_div(n, d), 1)

\* the float nearest to the rational x
fl(x) ==
    IF x.n = 0 THEN Rat(0, 1)
    ELSE IF x.n > 0 THEN RatNorm(fl_pos(x.n, x.d))
    ELSE LET r == RatNorm(fl_pos(-x.n, x.d)) IN Rat(-r.n, r.d)

\* a - b and a * b of two floats
fl_sub(a, b) == fl(Rat(a.n * b.d - b.n * a.d, a.d * b.d))

fl_mul(a, b) == fl(Rat(a.n * b.n, a.d * b.d))

RatGE(a, b) == a.n * b.d >= b.n * a.d

RatMin(a, b) == IF RatGE(b, a) THEN a ELSE b

RatMax(a, b) == IF RatGE(a, b) THEN a ELSE b

\* lines 54-90 on a row of floats
is_wick_touch_float(r, ma) ==
    IF ma.nan THEN 0
    ELSE LET size == fl_sub(r.high, r.low)
             bl == RatMin(r.open, r.close)
             bh == RatMax(r.open, r.close)
             lw == fl_sub(bl, r.low)
             uw == fl_sub(r.high, bh)
             below == RatGT(bl, ma) /\ RatGE(ma, r.low)
             above == RatGT(ma, bh) /\ RatGE(r.high, ma)
         IN  IF size.n <= 0 THEN 0
             ELSE IF below /\ RatGE(lw, fl_mul(config.alpha_wick, size)) THEN 1
             ELSE IF above /\ RatGE(uw, fl_mul(config.alpha_wick, size)) THEN -1
             ELSE 0

\* the row and the average multiplied by the float k, as the caller's
\* Python computes the products
scaled(x, k) == IF x.nan THEN NaN ELSE fl_mul(x, k)

scaled_row(r, k) ==
    [open |-> scaled(r.open, k), high |-> scaled(r.high, k),
     low |-> scaled(r.low, k), close |-> scaled(r.close, k)]

(* SpecScale: is_wick_touch on a candle and an average, then on the same   *)
(* candle and average multiplied by a positive constant.                   *)

FloatPrices == {Rat(a, 1) : a \in 1..(MaxPrice + 2)}

\* candles: low <= min(open, close) and max(open, close) <= high
FloatCandles ==
    {r \in [open : FloatPrices, high : FloatPrices,
            low : FloatPrices, close : FloatPrices] :
        /\ r.low.n <= r.open.n /\ r.low.n <= r.close.n
        /\ r.open.n <= r.high.n /\ r.close.n <= r.high.n}

FloatAverages == {fl(Rat(a, 2)) : a \in 2..(2 * MaxPrice + 5)} \cup {NaN}

FloatAlphas == {fl(DefaultAlphaWick), Rat(1, 2), Rat(1, 4)}

Factors == {Rat(2, 1), Rat(1, 2), Rat(3, 1), fl(Rat(1, 10))}

InitScale ==
    /\ NoFetch
    /\ NoFrame /\ NoMetricsCall /\ NoFileLoop /\ NoSweep
    /\ pc = "is_wick_touch"
    /\ ret = <<>>
    /\ row \in FloatCandles
    /\ ma_value \in FloatAverages
    /\ factor \in Factors
    /\ \E a \in FloatAlphas : config = [BaseConfig EXCEPT !.alpha_wick = a]

CallOnCandle ==
    /\ pc = "is_wick_touch"
    /\ ret' = <<is_wick_touch_float(row, ma_value)>>
    /\ pc' = "is_wick_touch_scaled"
    /\ UNCHANGED <<fetchVars, config, df, events_df, touchVars, fileVars, sweepVars>>

CallOnScaledCandle ==
    /\ pc = "is_wick_touch_scaled"
    /\ ret' = Append(ret, is_wick_touch_float(scaled_row(row, factor),
                                              scaled(ma_value, factor)))
    /\ pc' = "scaled_returned"
    /\ UNCHANGED <<fetchVars, config, df, events_df, touchVars, fileVars, sweepVars>>

NextScale == CallOnCandle \/ CallOnScaledCandle

SpecScale == InitScale /\ [][NextScale]_vars

-----------------------------------------------------------------------------
(* DataFetcher._fetch_ohlcv_stream (src/src/data_fetcher.py).  A candle is *)
(* known by its timestamp; the venue has one candle per tf_ms from 1 to    *)
(* now.  The file is None while it does not exist, else Some(lines); a     *)
(* line is [ts, kind], ts being what _get_last_ts_from_csv reads in it:    *)
(*   "header"         the column names,                                    *)
(*   "row"            one complete record,                                 *)
(*   "torn_in_ts"     a record cut inside its ts field (fewer than 12      *)
(*                    digits kept), with no line end: what a write that    *)
(*                    was killed half-way leaves,                          *)
(*   "torn_after_ts"  a record cut after its ts field, with no line end,   *)
(*   "glued"          a torn record and the row appended right behind it.  *)

MaxTs == 4
MaxLimit == 2
MaxRuns == 3

\* self.exchange.parse_timeframe(timeframe) * 1000, in candles
tf_ms == 1

\* self.fetch_config.limit_per_request
limit_per_request == MaxLimit

Header == [ts |-> 0, kind |-> "header"]

Row(t) == [ts |-> t, kind |-> "row"]

TornKinds == {"torn_in_ts", "torn_after_ts"}

\* self.exchange.fetch_ohlcv(since=fs, limit=...): the first candles from fs on
fetch_ohlcv(fs) ==
    LET first == Max(fs, 1)
        n == Min(limit_per_request, Max(0, now - first + 1))
    IN  [i \in 1..n |-> first + i - 1]

\* _get_last_ts_from_csv: the first of the three leading fields of the last
\* line that is a whole ts, else its datetime field; None for a missing or
\* empty file and for the header line
get_last_ts_from_csv(f) ==
    IF f = None \/ f[1] = <<>> THEN None
    ELSE IF f[1][Len(f[1])].kind = "header" THEN None
    ELSE Some(f[1][Len(f[1])].ts)

\* line 234
start_cursor(f) ==
    LET resume_since == get_last_ts_from_csv(f)
    IN  Max(since, IF resume_since # None /\ resume_since[1] # 0
                   THEN resume_since[1] + 1
                   ELSE since)

\* the line made of the unterminated line l and the line a written behind
\* it.  Its leading fields are l's datetime, l's ts unless it was cut, and
\* the ts of a when l was cut inside its ts and a's ts is whole.
joined(l, a) ==
    [ts |-> IF l.kind = "torn_in_ts" /\ a.kind \in {"row", "torn_after_ts"}
            THEN a.ts ELSE l.ts,
     kind |-> IF a.kind \in TornKinds THEN "torn_after_ts" ELSE "glued"]

\* bytes appended to a file that ends inside a line continue that line
glue(old, add) ==
    IF old # <<>> /\ add # <<>> /\ old[Len(old)].kind \in TornKinds
    THEN SubSeq(old, 1, Len(old) - 1) \o <<joined(old[Len(old)], Head(add))>>
            \o Tail(add)
    ELSE old \o add

\* batch.to_csv(filepath, mode='a', header=..., index=True) of the lines
to_csv(f, lines, header) ==
    Some(glue(IF f = None THEN <<>> ELSE f[1],
              (IF header THEN <<Header>> ELSE <<>>) \o lines))

rows_of(b) == [i \in 1..Len(b) |-> Row(b[i])]

\* what a killed to_csv has written of the batch: k complete rows and,
\* unless cut = "row", the beginning of the row after them
partial_rows(b, k, cut) ==
    [i \in 1..k |-> Row(b[i])]
        \o (IF cut \in TornKinds THEN <<[ts |-> b[k + 1], kind |-> cut]>>
            ELSE <<>>)

NoFetchLocals ==
    fetch_since = 0 /\ first_write = FALSE /\ bars = <<>> /\ total_written = 0

\* lines 231-240
FetchStart ==
    /\ pc = "fetch_stream"
    /\ fetch_since' = start_cursor(csv)
    /\ first_write' = (csv = None)
    /\ total_written' = 0
    /\ pc' = "fetch_request"
    /\ UNCHANGED <<config, df, events_df, ret, touchVars, fileVars, sweepVars,
                   csv, since, now, bars, runs>>

\* lines 243-249 and 255-257
FetchRequest ==
    /\ pc = "fetch_request"
    /\ bars' = fetch_ohlcv(fetch_since)
    /\ IF bars' = <<>>
       THEN pc' = "fetch_returned" /\ ret' = total_written
       ELSE pc' = "fetch_write" /\ UNCHANGED ret
    /\ UNCHANGED <<config, df, events_df, touchVars, fileVars, sweepVars,
                   csv, since, now, fetch_since, first_write, total_written, runs>>

\* lines 250-253: the request raised, the loop tries again
FetchRaises ==
    /\ pc = "fetch_request"
    /\ UNCHANGED vars

\* lines 259-294
FetchWrite ==
    /\ pc = "fetch_write"
    /\ csv' = to_csv(csv, rows_of(bars), first_write)
    /\ total_written' = total_written + Len(bars)
    /\ IF bars[Len(bars)] >= now - tf_ms
       THEN /\ pc' = "fetch_returned"
            /\ ret' = total_written'
            /\ UNCHANGED <<fetch_since, first_write>>
       ELSE /\ pc' = "fetch_request"
            /\ fetch_since' = bars[Len(bars)] + 1
            /\ first_write' = FALSE
            /\ UNCHANGED ret
    /\ UNCHANGED <<config, df, events_df, touchVars, fileVars, sweepVars,
                   since, now, bars, runs>>

\* the process is killed between two writes
KillBetweenWrites ==
    /\ pc = "fetch_request"
    /\ pc' = "fetch_killed"
    /\ UNCHANGED <<config, df, events_df, ret, touchVars, fileVars, sweepVars,
                   fetchVars>>

\* the process is killed inside to_csv of line 266
KillInsideWrite ==
    /\ pc = "fetch_write"
    /\ \E k \in 0..(Len(bars) - 1), cut \in TornKinds \cup {"row"} :
          csv' = to_csv(csv, partial_rows(bars, k, cut), first_write)
    /\ pc' = "fetch_killed"
    /\ UNCHANGED <<config, df, events_df, ret, touchVars, fileVars, sweepVars,
                   since, now, fetch_since, first_write, bars, total_written,
                   runs>>

\* _fetch_ohlcv_stream is invoked again for the same series, later
CallFetchStream ==
    /\ pc \in {"fetch_returned", "fetch_killed"}
    /\ runs < MaxRuns
    /\ runs' = runs + 1
    /\ now' \in now..MaxTs
    /\ pc' = "fetch_stream"
    /\ fetch_since' = 0 /\ first_write' = FALSE /\ bars' = <<>>
    /\ total_written' = 0
    /\ UNCHANGED <<config, df, events_df, ret, touchVars, fileVars, sweepVars,
                   csv, since>>

InitFetch ==
    /\ NoTouchCall /\ NoFrame /\ NoMetricsCall /\ NoFileLoop /\ NoSweep
    /\ config = BaseConfig
    /\ pc = "fetch_stream"
    /\ ret = None
    /\ csv = None
    /\ since \in 1..2
    /\ now \in since..MaxTs
    /\ NoFetchLocals
    /\ runs = 1

NextFetch ==
    \/ FetchStart \/ FetchRequest \/ FetchRaises \/ FetchWrite
    \/ KillBetweenWrites \/ KillInsideWrite \/ CallFetchStream

SpecFetch == InitFetch /\ [][NextFetch]_vars

-----------------------------------------------------------------------------
(* Vocabulary of the statements about is_wick_touch: the two touch         *)
(* conditions written out on the arguments of the call.                    *)

C1_Bullish ==
    LET bl == IF row.open <= row.close THEN row.open ELSE row.close
        a == config.alpha_wick
    IN  /\ bl * ma_value.d > ma_value.n
        /\ row.low * ma_value.d <= ma_value.n
        /\ (bl - row.low) * a.d >= a.n * (row.high - row.low)

C1_Bearish ==
    LET bh == IF row.open >= row.close THEN row.open ELSE row.close
        a == config.alpha_wick
    IN  /\ bh * ma_value.d < ma_value.n
        /\ row.high * ma_value.d >= ma_value.n
        /\ (row.high - bh) * a.d >= a.n * (row.high - row.low)

-----------------------------------------------------------------------------
(* Vocabulary of the statements about analyze_events: the returned events, *)
(* and the forward candles of an event read straight from the frame.       *)

Returned == pc = "events_returned"

Events == {ret[n] : n \in 1..Len(ret)}

LastPos == Len(df) - 1

CloseOf(e) == df[e.idx + 1].close

\* low <= close_i (bullish) or high >= close_i (bearish) at position p
Retraces(e, p) ==
    IF e.type = 1 THEN df[p + 1].low <= CloseOf(e)
    ELSE df[p + 1].high >= CloseOf(e)

\* high >= close_i * (1 + target_pct) (bullish) or low <= close_i * (1 - target_pct)
HitsTarget(e, p) ==
    LET t == config.target_pct
    IN  IF e.type = 1
        THEN df[p + 1].high * t.d >= CloseOf(e) * (t.d + t.n)
        ELSE df[p + 1].low * t.d <= CloseOf(e) * (t.d - t.n)

\* the last position the walk of e may read
HorizonEnd(e) ==
    IF config.max_lookahead = None THEN LastPos
    ELSE Min(LastPos, e.idx + config.max_lookahead[1])

Horizon(e) == (e.idx + 1)..HorizonEnd(e)

(* C2. The invalidation check precedes the target check within the same    *)
(* forward candle: an examined candle that both retraces to the entry      *)
(* close and reaches the target leaves the event reached = FALSE, and the  *)
(* candle an event succeeded on never retraces; for every target_pct,      *)
(* 0 included.                                                             *)
C2_InvalidationFirst ==
    Returned =>
        \A e \in Events :
            /\ \A p \in e.examined :
                  (Retraces(e, p) /\ HitsTarget(e, p)) => ~e.reached
            /\ e.reached => ~Retraces(e, e.idx + e.time_to_target[1])

\* with target_pct = 0, a bullish event examined a candle that retraces and
\* reaches the target, and failed
C2_Witness ==
    /\ Returned
    /\ config.target_pct.n = 0
    /\ \E e \in Events :
          /\ e.type = 1 /\ ~e.reached
          /\ \E p \in e.examined : Retraces(e, p) /\ HitsTarget(e, p)

C3_Offsets(e) ==
    {k \in 1..(HorizonEnd(e) - e.idx) :
        /\ HitsTarget(e, e.idx + k)
        /\ \A j \in 1..k : ~Retraces(e, e.idx + j)}

(* C3. An event is reached exactly when some forward offset k within the   *)
(* lookahead and the frame reaches the target with no candle 1..k          *)
(* retracing to the entry close; time_to_target is the smallest such k.    *)
C3_ReachedIffFirstTarget ==
    Returned =>
        \A e \in Events :
            /\ e.reached <=> C3_Offsets(e) # {}
            /\ e.reached =>
                  /\ e.time_to_target # None
                  /\ e.time_to_target[1] \in C3_Offsets(e)
                  /\ \A k \in C3_Offsets(e) : e.time_to_target[1] <= k

\* a bearish event that succeeds on its second forward candle
C3_Witness ==
    /\ Returned
    /\ \E e \in Events :
          e.type = -1 /\ e.reached /\ e.time_to_target = Some(2)

C4_IsTouch(j) == is_wick_touch(df[j + 1], df[j + 1].ma) # 0

C4_Isolated(i) ==
    /\ C4_IsTouch(i)
    /\ \A j \in 0..LastPos :
          (j # i /\ i - config.n_pre <= j /\ j <= i + config.n_post)
              => ~C4_IsTouch(j)

(* C4. Position i yields an event exactly when it is a touch and no        *)
(* position of [max(0, i - n_pre), i - 1] nor of                           *)
(* [i + 1, min(last, i + n_post)] is a touch; a window that crosses an     *)
(* end of the frame is clamped.                                            *)
C4_EventIffIsolatedTouch ==
    Returned =>
        \A i \in 0..LastPos :
            (\E e \in Events : e.idx = i) <=> C4_Isolated(i)

\* an event at position 0 whose pre-window is clamped, and a touch that a
\* neighbouring touch rejects
C4_Witness ==
    /\ Returned
    /\ config.n_pre >= 1
    /\ \E e \in Events : e.idx = 0
    /\ \E j \in 0..LastPos : C4_IsTouch(j) /\ ~\E e \in Events : e.idx = j

C5_Passed(e) == {p \in e.examined : ~Retraces(e, p) /\ ~HitsTarget(e, p)}

C5_Adverse(e, p) ==
    IF e.type = 1 THEN Rat(CloseOf(e) - df[p + 1].low, CloseOf(e))
    ELSE Rat(df[p + 1].high - CloseOf(e), CloseOf(e))

C5_IsMaxOf(x, S) ==
    /\ \E y \in S : RatEQ(x, y)
    /\ \A y \in S : ~RatGT(y, x)

(* C5, as claimed. Whenever some examined candle neither invalidated nor   *)
(* succeeded, adverse_max is the maximum over those candles of             *)
(* (close_i - low)/close_i (bullish) or (high - close_i)/close_i (bearish).*)
C5_AdverseIsMaxOfPassed ==
    Returned =>
        \A e \in Events :
            C5_Passed(e) # {} =>
                C5_IsMaxOf(e.adverse_max, {C5_Adverse(e, p) : p \in C5_Passed(e)})

(* C5, amended. adverse_max is the larger of 0 and the maximum over the    *)
(* examined candles that neither invalidated nor succeeded: the running    *)
(* maximum starts at 0.                                                    *)
C5_AdverseIsMaxWithZero ==
    Returned =>
        \A e \in Events :
            C5_IsMaxOf(e.adverse_max,
                       {Rat(0, 1)} \cup {C5_Adverse(e, p) : p \in C5_Passed(e)})

\* an event that passed two candles before its walk ended
C5_Witness ==
    /\ Returned
    /\ \E e \in Events : Cardinality(C5_Passed(e)) >= 2

C6_Ending(e) == {p \in Horizon(e) : Retraces(e, p) \/ HitsTarget(e, p)}

C6_First(e) == CHOOSE p \in C6_Ending(e) : \A q \in C6_Ending(e) : p <= q

(* C6. The walk reads only the positions i+1 .. min(i + max_lookahead,     *)
(* last) (to the last position when max_lookahead is None) and stops at    *)
(* the first candle that invalidates or succeeds.  An event none of whose  *)
(* candles does either, and an event whose first such candle invalidates,  *)
(* is recorded reached = FALSE with no time_to_target, whatever a later    *)
(* candle does.                                                            *)
C6_WalkStopsAtFirstEnding ==
    Returned =>
        \A e \in Events :
            /\ e.examined \subseteq Horizon(e)
            /\ IF C6_Ending(e) = {}
               THEN /\ e.examined = Horizon(e)
                    /\ ~e.reached /\ e.time_to_target = None
               ELSE /\ e.examined = (e.idx + 1)..C6_First(e)
                    /\ Retraces(e, C6_First(e))
                         => (~e.reached /\ e.time_to_target = None)

\* an invalidated event with a later candle, inside the horizon, that
\* reaches the target; and an event on the last candle
C6_Witness ==
    /\ Returned
    /\ \E e \in Events :
          /\ C6_Ending(e) # {} /\ Retraces(e, C6_First(e))
          /\ \E q \in Horizon(e) : q > C6_First(e) /\ HitsTarget(e, q)
    /\ \E e \in Events : e.idx = LastPos /\ e.examined = {}

-----------------------------------------------------------------------------
(* Vocabulary of the statements about analyze_file: the combinations the   *)
(* loops have passed, and what each left in results.                       *)

Combinations ==
    {c \in (config.ma_period_min..config.ma_period_max)
              \X (1..Len(config.ma_types)) :
        /\ pc \in {"file_loop", "file_returned"}
        /\ \/ c[1] < period
           \/ c[1] = period /\ c[2] < ti}

\* the series the combination scans: the rows dropna leaves
Scanned(c) == df_temp_of(df, c[1], config.ma_types[c[2]])

NumEvents(c) == Len(analyze_events(Scanned(c)))

NumRecords(c) ==
    Cardinality({n \in 1..Len(results) :
        /\ results[n].period = c[1]
        /\ results[n].ma_type = config.ma_types[c[2]]})

(* C7, as claimed. A combination contributes exactly one Summary Record if *)
(* the number of its isolated events is >= min_events_for_significance and *)
(* none if it is smaller.                                                  *)
C7_RecordIffGatePassed ==
    \A c \in Combinations :
        NumRecords(c) =
            IF NumEvents(c) >= config.min_events_for_significance THEN 1 ELSE 0

(* C7, amended. A combination contributes exactly one Summary Record if    *)
(* at least one row of the series is left to scan once the rows with an    *)
(* undefined value are dropped and the number of its isolated events is    *)
(* >= min_events_for_significance, and none otherwise.                     *)
C7_RecordIffScannedAndGatePassed ==
    \A c \in Combinations :
        NumRecords(c) =
            IF /\ Len(Scanned(c)) > 0
               /\ NumEvents(c) >= config.min_events_for_significance
            THEN 1 ELSE 0

\* the file is done; one combination met the gate exactly and left a record,
\* another had events but fewer than the gate
C7_Witness ==
    /\ pc = "file_returned"
    /\ config.min_events_for_significance >= 1
    /\ \E c \in Combinations :
          /\ NumEvents(c) = config.min_events_for_significance
          /\ NumRecords(c) = 1
    /\ \E c \in Combinations :
          /\ NumEvents(c) >= 1
          /\ NumEvents(c) < config.min_events_for_significance

(* C8. Every record calculate_metrics returns, the one for the empty list  *)
(* included, has wins + losses = total_events and 0 <= win_rate <= 100,    *)
(* where wins is the number of reached events and win_rate is              *)
(* 100 * wins / total_events to two decimals (0 when there is no event).   *)
C8_MetricsInvariant ==
    pc = "metrics_returned" =>
        LET total == Len(events_df)
            wins == Cardinality({n \in 1..total : events_df[n].reached})
            w == ret.win_rate
        IN  /\ ret.wins + ret.losses = ret.total_events
            /\ ret.total_events = total
            /\ ret.wins = wins
            /\ 0 <= w.n /\ w.n <= 100 * w.d
            /\ total = 0 => w.n = 0
            /\ total > 0 =>
                  LET diff == w.n * total - 100 * wins * w.d
                  IN  200 * (IF diff >= 0 THEN diff ELSE -diff) <= w.d * total

\* two of three events reached: a win rate of 66.67
C8_Witness ==
    /\ pc = "metrics_returned"
    /\ Len(events_df) = 3
    /\ ret.wins = 2 /\ ret.losses = 1
    /\ ret.win_rate = Rat(6667, 100)

(* C9. calculate_metrics reports avg_adverse_max as the mean of            *)
(* adverse_max over all events to four decimals for every non-empty list;  *)
(* it is undefined only for the empty list, and every record has the       *)
(* field.                                                                  *)
C9_AvgAdverseIsRoundedMean ==
    pc = "metrics_returned" =>
        /\ "avg_adverse_max" \in DOMAIN ret
        /\ Len(events_df) = 0 => ret.avg_adverse_max = None
        /\ Len(events_df) > 0 =>
              /\ ret.avg_adverse_max # None
              /\ LET a == ret.avg_adverse_max[1]
                     m == mean_adverse(events_df)
                     diff == a.n * m.d - m.n * a.d
                 IN  20000 * (IF diff >= 0 THEN diff ELSE -diff) <= a.d * m.d

-----------------------------------------------------------------------------
(* Vocabulary of the statements about analyze_all_data.                    *)

\* the files the loop of line 306 is done with
Passed == {i \in 1..Len(csv_files) : pc # "analyze_all_data" /\ i < fidx}

WasAnalyzed(i) == \E n \in 1..Len(analyzed) : analyzed[n] = i

UnitSeconds(u) ==
    CASE u = "m" -> 60 [] u = "h" -> 3600 [] u = "d" -> 86400 [] u = "w" -> 604800

\* a magnitude followed by one unit of m, h, d, w
IsMagnitudeUnit(tf) ==
    /\ Len(tf) >= 2
    /\ tf[Len(tf)] \in {"m", "h", "d", "w"}
    /\ \A i \in 1..(Len(tf) - 1) : tf[i] \in Digits

Duration(tf) ==
    int_value(SubSeq(tf, 1, Len(tf) - 1)) * UnitSeconds(tf[Len(tf)])

(* C10. analyze_all_data analyzes an input series exactly when its         *)
(* timeframe label is a magnitude+unit label (unit m = 60, h = 3600,       *)
(* d = 86400, w = 604800 seconds) whose duration is strictly less than one *)
(* day; no input with another label is analyzed.                           *)
C10_AnalyzedIffSubDay ==
    \A i \in Passed :
        parts_len(csv_files[i]) >= 3 =>
            (WasAnalyzed(i) <=>
                /\ IsMagnitudeUnit(csv_files[i].tf)
                /\ Duration(csv_files[i].tf) < 86400)

-----------------------------------------------------------------------------
(* Vocabulary of the statements about the end of analyze_all_data.         *)

\* analyze_all_data is over: it returned or an exception left it
Over == pc \in {"sweep_returned", "sweep_raised"}

\* an input whose name, label and content have nothing wrong
Healthy(i) ==
    /\ parts_len(csv_files[i]) >= 3
    /\ ~parse_raises(csv_files[i].tf)
    /\ parse_timeframe(csv_files[i].tf) < one_day
    /\ csv_files[i].readable

RecordsOf(i) == analyze_file(file_tag(csv_files[i]), csv_files[i].rows)

Holds(table, r) == \E m \in 1..Len(table) : table[m] = r

(* C11. One bad input is never fatal to analyze_all_data: the sweep        *)
(* returns, every healthy input has been analyzed and its records are in   *)
(* the result, wherever the bad input sits in the file order.              *)
C11_BadInputNeverFatal ==
    Over =>
        /\ pc = "sweep_returned"
        /\ \A i \in 1..Len(csv_files) :
              Healthy(i) =>
                  /\ WasAnalyzed(i)
                  /\ \A n \in 1..Len(RecordsOf(i)) : Holds(ret, RecordsOf(i)[n])

\* the number of times the record r is in the table
Count(table, r) == Cardinality({m \in 1..Len(table) : table[m] = r})

(* C12. The Result Table that analyze_all_data returns and writes holds    *)
(* exactly the Summary Records collected from the analyzed inputs, and     *)
(* each row's win_rate is >= the win_rate of the row after it.             *)
C12_TableSortedAndComplete ==
    pc = "sweep_returned" =>
        /\ Len(ret) = Len(all_results)
        /\ \A n \in 1..Len(ret) : Count(ret, ret[n]) = Count(all_results, ret[n])
        /\ \A n \in 1..(Len(ret) - 1) :
              ret[n].win_rate.n * ret[n + 1].win_rate.d
                  >= ret[n + 1].win_rate.n * ret[n].win_rate.d
        /\ all_results # <<>> => summary_file = Some(ret)

\* the sort moved a record collected later in front of one collected earlier
C12_Witness ==
    /\ pc = "sweep_returned"
    /\ Len(ret) >= 2
    /\ RatGT(ret[1].win_rate, ret[2].win_rate)
    /\ ret[1] = all_results[2]
    /\ summary_file = Some(ret)

\* the configuration errors: an empty or non-positive period range, no type
ConfigError ==
    \/ config.ma_period_min > config.ma_period_max
    \/ config.ma_period_min < 1
    \/ config.ma_types = <<>>

(* C13. With a configuration error (ma_period_min > ma_period_max,         *)
(* ma_period_min < 1 or an empty ma_types) the sweep does not start: no    *)
(* input series is analyzed and analyze_all_data does not return a result  *)
(* as a successful run does.                                               *)
C13_ConfigErrorSurfaced ==
    ConfigError => (analyzed = <<>> /\ pc # "sweep_returned")

(* C14. Every sweep that runs to completion rewrites analysis_results.csv: *)
(* when analyze_all_data has returned, the file, once it exists, holds the *)
(* Result Table of that sweep, the empty table when the sweep collected    *)
(* nothing, and never the table of an earlier sweep.                       *)
C14_SummaryIsLatestTable ==
    (pc = "sweep_returned" /\ summary_file # None) => summary_file = Some(ret)

(* C15. A combination whose scan finds zero events leaves no Summary      *)
(* Record, whatever non-negative min_events_for_significance is, 0         *)
(* included.                                                               *)
C15_NoEventsNoRecord ==
    \A c \in Combinations :
        (Len(Scanned(c)) > 0 /\ NumEvents(c) = 0) => NumRecords(c) = 0

-----------------------------------------------------------------------------
(* More statements about is_wick_touch.                                    *)

TouchReturned == pc = "touch_returned"

\* open = close = high = low
FlatCandle(r) == r.open = r.close /\ r.high = r.low /\ r.open = r.high

(* C16. is_wick_touch returns no-touch whenever the average is undefined   *)
(* or the candle's range high - low is zero; a flat candle                 *)
(* (open = close = high = low) is therefore never a touch, whatever the    *)
(* average computed for it.                                                *)
C16_UndefinedOrFlatIsNoTouch ==
    TouchReturned =>
        /\ (ma_value.nan \/ row.high - row.low = 0) => ret = 0
        /\ FlatCandle(row) => ret = 0

\* a flat candle met the average of a series of candles like it
C16_Witness ==
    /\ TouchReturned
    /\ FlatCandle(row)
    /\ ma_value = Rat(2 * row.close, 2)
    /\ ret = 0

\* the invariant of a candle: low <= min(open, close) <= max(open, close) <= high
IsCandle(r) == r.low <= body_low(r) /\ body_high(r) <= r.high

(* C17. A touch is a wick crossing, never a body crossing: for every       *)
(* candle (low <= min(open, close), max(open, close) <= high) and every    *)
(* average, when is_wick_touch reports a touch, low <= average <= high and *)
(* the average is strictly below min(open, close) or strictly above        *)
(* max(open, close); an average outside [low, high] or inside the body is  *)
(* no touch.                                                               *)
C17_TouchIsWickOnly ==
    (TouchReturned /\ IsCandle(row) /\ ret # 0) =>
        /\ ~ma_value.nan
        /\ row.low * ma_value.d <= ma_value.n
        /\ ma_value.n <= row.high * ma_value.d
        /\ \/ ma_value.n < body_low(row) * ma_value.d
           \/ ma_value.n > body_high(row) * ma_value.d

\* a bearish touch whose average lies strictly inside the upper wick
C17_Witness ==
    /\ TouchReturned
    /\ IsCandle(row)
    /\ ret = -1
    /\ body_high(row) * ma_value.d < ma_value.n
    /\ ma_value.n < row.high * ma_value.d

\* the number of events analyze_events returned for position i
C19_EventsAt(i) == Cardinality({n \in 1..Len(ret) : ret[n].idx = i})

(* C19. With n_pre = 0 and n_post = 0 the isolation filter accepts every   *)
(* touch: analyze_events returns exactly one event for every position      *)
(* classified as a touch, touches at adjacent positions notwithstanding,   *)
(* and none for any other position.                                        *)
C19_EmptyWindowsAcceptAll ==
    (Returned /\ config.n_pre = 0 /\ config.n_post = 0) =>
        \A i \in 0..LastPos :
            C19_EventsAt(i) = IF C4_IsTouch(i) THEN 1 ELSE 0

\* two touches side by side, each with its event
C19_Witness ==
    /\ Returned
    /\ config.n_pre = 0 /\ config.n_post = 0
    /\ \E i \in 0..(LastPos - 1) :
          /\ C4_IsTouch(i) /\ C4_IsTouch(i + 1)
          /\ C19_EventsAt(i) = 1 /\ C19_EventsAt(i + 1) = 1

(* C18. For every candle, average and alpha_wick, is_wick_touch gives the  *)
(* same result when open, high, low, close and the average are all         *)
(* multiplied by the same positive constant.                               *)
C18_ScaleInvariant ==
    pc = "scaled_returned" => ret[1] = ret[2]

\* the no-touch cases: the average outside the candle, the average inside
\* the body, a candle of range zero
C20_NoTouchCase ==
    /\ ~ma_value.nan
    /\ \/ ma_value.n > row.high * ma_value.d
       \/ ma_value.n < row.low * ma_value.d
       \/ /\ body_low(row) * ma_value.d <= ma_value.n
          /\ ma_value.n <= body_high(row) * ma_value.d
       \/ row.high - row.low = 0

(* C20. is_wick_touch returns the boolean False when there is no touch     *)
(* (average outside the candle, average inside the body, zero-range        *)
(* candle) and the boolean True for a candle whose body is above the       *)
(* average, whose low reaches the average and whose lower wick is          *)
(* >= alpha_wick * candle size: `result is False`, `result is True`.       *)
C20_ReturnsBoolean ==
    (TouchReturned /\ IsCandle(row)) =>
        /\ C20_NoTouchCase =>
              py_is(is_wick_touch_object(row, ma_value), PyBool(FALSE))
        /\ (~ma_value.nan /\ row.high > row.low /\ C1_Bullish) =>
              py_is(is_wick_touch_object(row, ma_value), PyBool(TRUE))

-----------------------------------------------------------------------------
(* More statements about analyze_file.                                     *)

\* the average of the combination is defined at position i: from P - 1 on
\* for the simple average, everywhere for the exponential one
C21_Defined(c, i) == config.ma_types[c[2]] = "EMA" \/ i >= c[1] - 1

C21_ScannedPositions(c) == {Scanned(c)[n].ts : n \in 1..Len(Scanned(c))}

(* C21. Each (period, MA type) combination scans exactly the positions of  *)
(* the series where its average is defined: positions i >= P - 1 for the   *)
(* simple average, every position for the exponential one; no candle with  *)
(* a defined average is dropped for another reason.                        *)
C21_ScansDefinedPositions ==
    \A c \in Combinations :
        C21_ScannedPositions(c) =
            {i \in 0..(Len(df) - 1) : C21_Defined(c, i)}

-----------------------------------------------------------------------------
(* Statements about _fetch_ohlcv_stream.                                   *)

\* the timestamps of the complete records of the file, in file order
RECURSIVE records(_)
records(lines) ==
    IF lines = <<>> THEN <<>>
    ELSE (IF Head(lines).kind = "row" THEN <<Head(lines).ts>> ELSE <<>>)
            \o records(Tail(lines))

Stored == IF csv = None THEN <<>> ELSE records(csv[1])

(* C22. Re-invoking _fetch_ohlcv_stream resumes after the last persisted   *)
(* timestamp and is idempotent: when an invocation has returned, after any *)
(* number of interrupted and repeated invocations, the file holds every    *)
(* candle of the venue from the start cursor to the last complete candle   *)
(* exactly once: no record twice, none missing.                            *)
C22_ResumeIsIdempotent ==
    pc = "fetch_returned" =>
        /\ \A m, n \in 1..Len(Stored) : m < n => Stored[m] < Stored[n]
        /\ \A t \in since..(now - tf_ms) : \E n \in 1..Len(Stored) : Stored[n] = t

-----------------------------------------------------------------------------
(* Statements about the iterations of analyze_file.                        *)

\* the record a sweep of the one combination (prd, ma_type) gives for d
C23_Alone(d, prd, ma_type) == combination(TheFile, d, prd, ma_type)

(* C23. The iterations of analyze_file share no mutable state: every       *)
(* iteration leaves the loaded series as it was, and each record of the    *)
(* returned list is the record that its combination gives on the loaded    *)
(* series on its own, whatever was evaluated before it.                    *)
C23_IterationsShareNoState ==
    [][/\ pc = "file_loop" => df' = df
       /\ pc' = "file_returned" =>
            \A n \in 1..Len(ret') :
                <<ret'[n]>> = C23_Alone(df', ret'[n].period, ret'[n].ma_type)]_vars

\* a returned sweep in which the period-2 SMA, whose copy lost a row, was
\* evaluated before another combination that gave a record
C23_Witness ==
    /\ pc = "file_returned"
    /\ Len(df) >= 2
    /\ \E m, n \in 1..Len(ret) :
          /\ m < n
          /\ ret[m].period = 2 /\ ret[m].ma_type = "SMA"
          /\ ret[n].ma_type = "EMA"
          /\ Len(df_temp_of(df, 2, "SMA")) < Len(df)
          /\ ret[n].total_events > 0

-----------------------------------------------------------------------------
(* Statements about the order and the spacing of the events.               *)

C24_Touch(i) == touch_at(df, i) # 0

C24_IsEvent(i) == \E n \in 1..Len(ret) : ret[n].idx = i

(* C24. In the list analyze_events returns, the positions of the events    *)
(* are strictly increasing (so no position has two events), two events at  *)
(* positions i < j have j - i > max(n_pre, n_post), and of two touches at  *)
(* a distance <= min(n_pre, n_post) neither is an event.                   *)
C24_EventsOrderedAndSpaced ==
    Returned =>
        /\ \A m, n \in 1..Len(ret) :
              m < n => /\ ret[m].idx < ret[n].idx
                       /\ ret[n].idx - ret[m].idx > Max(config.n_pre, config.n_post)
        /\ \A i, j \in 0..LastPos :
              (/\ i < j
               /\ C24_Touch(i) /\ C24_Touch(j)
               /\ j - i <= Min(config.n_pre, config.n_post))
                  => ~C24_IsEvent(i) /\ ~C24_IsEvent(j)

\* two events under windows of different lengths, the longer one before
C24_Witness ==
    /\ Returned
    /\ config.n_pre > config.n_post
    /\ Len(ret) >= 2

\* two touches next to each other, both rejected
C24_RejectedPair ==
    /\ Returned
    /\ Min(config.n_pre, config.n_post) >= 1
    /\ \E i \in 0..(LastPos - 1) :
          /\ C24_Touch(i) /\ C24_Touch(i + 1)
          /\ ~C24_IsEvent(i) /\ ~C24_IsEvent(i + 1)

-----------------------------------------------------------------------------
(* Statements about the value of adverse_max.                              *)

C25_PositivePrices ==
    \A n \in 1..Len(df) :
        df[n].open > 0 /\ df[n].high > 0 /\ df[n].low > 0 /\ df[n].close > 0

(* C25. On a series whose prices are all strictly positive, every event    *)
(* that analyze_events returns has adverse_max exactly 0: it is neither    *)
(* negative nor positive.                                                  *)
C25_AdverseMaxIsZero ==
    (Returned /\ C25_PositivePrices) =>
        \A e \in Events : e.adverse_max = Rat(0, 1)

\* an event whose walk passed a candle with a strictly negative excursion
C25_Witness ==
    /\ Returned
    /\ C25_PositivePrices
    /\ \E e \in Events :
          \E p \in C5_Passed(e) :
              /\ RatGT(Rat(0, 1), C5_Adverse(e, p))
              /\ e.adverse_max = Rat(0, 1)

====
